---- MODULE Spec2Model ----
(***************************************************************************)
(* The duel-history page of pistols-at-dawn-tracker (src/index.js): the    *)
(* React state of HomePage (player, duels, error), the asynchronous        *)
(* searchDuels handler with its fetches in flight, and the render function *)
(* that computes the win/loss chart data and the per-duel table rows.      *)
(*                                                                         *)
(* JavaScript strings are sequences of one-character tokens; null and      *)
(* undefined are the single value Null.  A render that throws a TypeError  *)
(* unmounts the page (there is no error boundary): crashed becomes TRUE    *)
(* and no handler runs any more.                                           *)
(***************************************************************************)
EXTENDS Integers, Sequences, FiniteSets, TLC

VARIABLES
    player,     \* useState(''): the text of the address input
    duels,      \* useState([]): the result set
    error,      \* useState(null): the error message, or Null
    pending,    \* fetches in flight, one per searchDuels call not yet settled
    issued,     \* history: how many times searchDuels was called
    okIds,      \* history: the searches that settled with setDuels
    last,       \* history: the search whose response last reached setDuels
    chartData,  \* the last render's [wins, losses] (lines 61-66)
    table,      \* the last render's table rows (lines 112-133)
    crashed     \* the last render threw

vars == <<player, duels, error, pending, issued, okIds, last, chartData, table, crashed>>

----------------------------------------------------------------------------
(* Bounds *)

MaxLen == 1        \* longest address string of the projection inputs
MaxDuels == 2      \* longest result set a response carries
MaxSearches == 2   \* searchDuels calls in one behaviour

----------------------------------------------------------------------------
(* Values *)

Null == <<"null">>

Chars == {"a", "A", "b"}

Str == UNION {[1..n -> Chars] : n \in 0..MaxLen}

LowerChar(c) == CASE c = "A" -> "a" [] c = "B" -> "b" [] OTHER -> c

\* a comparison that forgets to fold the case
toLowerCaseIdentity(s) == s

\* String.prototype.toLowerCase
toLowerCase(s) == [i \in 1..Len(s) |-> LowerChar(s[i])]

\* JavaScript truthiness of a string-or-null value
Truthy(v) == v # Null /\ v # <<>>

\* a || b
OrElse(a, b) == IF Truthy(a) THEN a ELSE b

You == <<"You">>
Opponent == <<"Opponent">>
GraphQLError == <<"GraphQL error: ">>
RequestFailed == <<"Request failed: ">>

\* Array.prototype.join(', ') on an array of step tokens
RECURSIVE join(_)
join(steps) ==
    IF Len(steps) = 0 THEN <<>>
    ELSE IF Len(steps) = 1 THEN <<steps[1]>>
    ELSE <<steps[1], ", ">> \o join(Tail(steps))

----------------------------------------------------------------------------
(* The render function, lines 60-66 and 112-133 *)

\* d.winner === player
WinnerIsPlayerExact(d, p) == d.winner # Null /\ d.winner = p

\* d.winner?.toLowerCase() === player.toLowerCase()
WinnerIsPlayer(d, p) == d.winner # Null /\ toLowerCase(d.winner) = toLowerCase(p)

RECURSIVE countWins(_, _)
countWins(ds, p) ==
    IF ds = <<>> THEN 0
    ELSE (IF WinnerIsPlayer(Head(ds), p) THEN 1 ELSE 0) + countWins(Tail(ds), p)

\* losses taken as the number of records
ChartDataLossesTotal(ds, p) ==
    [wins |-> countWins(ds, p), losses |-> Len(ds)]

\* lines 61-66
ChartData(ds, p) ==
    LET wins == countWins(ds, p)
        losses == Len(ds) - wins
    IN  [wins |-> wins, losses |-> losses]

\* line 113 dereferences duel.player1.address
AddressThrows(duel) == duel.player1.address = Null

\* a viewpoint that matches neither address is given the first slot
isPlayer1OrStranger(duel, p) ==
    \/ toLowerCase(duel.player1.address) = toLowerCase(p)
    \/ ~(duel.player2.address # Null
          /\ toLowerCase(duel.player2.address) = toLowerCase(p))

\* line 113
isPlayer1(duel, p) == toLowerCase(duel.player1.address) = toLowerCase(p)

\* the winner cell decided by the slot instead of by the viewpoint
WinnerCellByRole(duel, p) ==
    IF ~Truthy(duel.winner) THEN duel.winner
    ELSE IF toLowerCase(duel.winner) = toLowerCase(duel.player1.address)
              <=> toLowerCase(duel.player1.address) = toLowerCase(p)
         THEN You ELSE Opponent

\* lines 120-121: duel.winner && (... ? 'You' : 'Opponent')
WinnerCell(duel, p) ==
    IF ~Truthy(duel.winner) THEN duel.winner
    ELSE IF toLowerCase(duel.winner) = toLowerCase(p) THEN You ELSE Opponent

\* lines 113-121, for a duel line 113 does not throw on
Project(duel, p) ==
    LET first == isPlayer1(duel, p)
    IN  [ isPlayer1  |-> first,
          yourShots  |-> IF first THEN duel.shotStepsP1 ELSE duel.shotStepsP2,
          yourDodges |-> IF first THEN duel.dodgeStepsP1 ELSE duel.dodgeStepsP2,
          oppShots   |-> IF first THEN duel.shotStepsP2 ELSE duel.shotStepsP1,
          oppDodges  |-> IF first THEN duel.dodgeStepsP2 ELSE duel.dodgeStepsP1,
          opponent   |-> IF first
                         THEN OrElse(duel.player2.username, duel.player2.address)
                         ELSE OrElse(duel.player1.username, duel.player1.address),
          winner     |-> WinnerCell(duel, p) ]

\* lines 126-129 call .join on the four selected step arrays
JoinThrows(pr) ==
    \/ pr.yourShots = Null
    \/ pr.yourDodges = Null
    \/ pr.oppShots = Null
    \/ pr.oppDodges = Null

\* the callback of duels.map throws
RowThrows(duel, p) == AddressThrows(duel) \/ JoinThrows(Project(duel, p))

\* lines 122-131
Row(duel, p) ==
    LET pr == Project(duel, p)
    IN  [ id         |-> duel.id,
          opponent   |-> pr.opponent,
          yourShots  |-> join(pr.yourShots),
          yourDodges |-> join(pr.yourDodges),
          oppShots   |-> join(pr.oppShots),
          oppDodges  |-> join(pr.oppDodges),
          winner     |-> pr.winner ]

\* lines 83 and 112: the table is rendered only for a non-empty result set
RenderThrows(ds, p) == \E i \in 1..Len(ds) : RowThrows(ds[i], p)

Table(ds, p) ==
    IF RenderThrows(ds, p) THEN <<>> ELSE [i \in 1..Len(ds) |-> Row(ds[i], p)]

\* one run of HomePage's body over the new state
Render(ds, p) ==
    /\ chartData' = ChartData(ds, p)
    /\ table' = Table(ds, p)
    /\ crashed' = RenderThrows(ds, p)

----------------------------------------------------------------------------
(* Records the endpoint may return *)

Player(a, u) == [address |-> a, username |-> u]

Shot1 == <<"1", "2">>
Shot2 == <<"3">>
Dodge1 == <<"4">>
Dodge2 == <<"5", "6">>

Duel(id, p1, p2, s1, s2, d1, d2, w) ==
    [ id |-> id, player1 |-> p1, player2 |-> p2,
      shotStepsP1 |-> s1, shotStepsP2 |-> s2,
      dodgeStepsP1 |-> d1, dodgeStepsP2 |-> d2, winner |-> w ]

\* the records the page's searches are answered from
World ==
    { Duel("d1", Player(<<"a">>, <<"x">>), Player(<<"b">>, Null),
           Shot1, Shot2, Dodge1, Dodge2, <<"A">>),
      Duel("d2", Player(<<"a">>, <<>>), Player(<<"b">>, <<"y">>),
           Shot1, Shot2, Dodge1, Dodge2, Null),
      Duel("d3", Player(<<"b">>, Null), Player(<<"A">>, Null),
           Null, Shot2, Dodge1, Dodge2, <<>>) }

Responses == UNION {[1..n -> World] : n \in 0..MaxDuels}

\* what the user can type into the input
Inputs == {<<>>, <<"a">>, <<"A">>, <<"b">>}

----------------------------------------------------------------------------
(* The page *)

Init ==
    /\ player = <<>>
    /\ duels = <<>>
    /\ error = Null
    /\ pending = {}
    /\ issued = 0
    /\ okIds = {}
    /\ last = [id |-> 0, player |-> <<>>, recs |-> <<>>]
    /\ chartData = ChartData(<<>>, <<>>)
    /\ table = Table(<<>>, <<>>)
    /\ crashed = FALSE

\* an edit that also empties the result set
SetPlayerClears(v) ==
    /\ ~crashed
    /\ v # player
    /\ player' = v
    /\ duels' = <<>>
    /\ UNCHANGED <<error, pending, issued, okIds, last>>
    /\ Render(<<>>, v)

\* line 77: onChange={e => setPlayer(e.target.value)}
SetPlayer(v) ==
    /\ ~crashed
    /\ v # player
    /\ player' = v
    /\ UNCHANGED <<duels, error, pending, issued, okIds, last>>
    /\ Render(duels, v)

\* lines 34-45: setError(null), then the fetch is sent with the current player
SearchDuels ==
    /\ ~crashed
    /\ issued < MaxSearches
    /\ error' = Null
    /\ issued' = issued + 1
    /\ pending' = pending \cup {[id |-> issued + 1, player |-> player]}
    /\ UNCHANGED <<player, duels, okIds, last>>
    /\ Render(duels, player)

\* a response is dropped unless it answers the search issued last
ResolveOkLatestOnly(req, recs) ==
    /\ ~crashed
    /\ req \in pending
    /\ pending' = pending \ {req}
    /\ duels' = IF req.id = issued THEN recs ELSE duels
    /\ okIds' = okIds \cup {req.id}
    /\ last' = [id |-> req.id, player |-> req.player, recs |-> recs]
    /\ UNCHANGED <<player, error, issued>>
    /\ Render(duels', player)

\* lines 46-53: the response has no errors, setDuels(json.data.allDuels)
ResolveOk(req, recs) ==
    /\ ~crashed
    /\ req \in pending
    /\ pending' = pending \ {req}
    /\ duels' = recs
    /\ okIds' = okIds \cup {req.id}
    /\ last' = [id |-> req.id, player |-> req.player, recs |-> recs]
    /\ UNCHANGED <<player, error, issued>>
    /\ Render(duels', player)

\* an error response that also empties the result set
ResolveGraphQLErrorClears(req) ==
    /\ ~crashed
    /\ req \in pending
    /\ pending' = pending \ {req}
    /\ error' = GraphQLError
    /\ duels' = <<>>
    /\ UNCHANGED <<player, issued, okIds, last>>
    /\ Render(<<>>, player)

\* lines 47-49: the response carries errors
ResolveGraphQLError(req) ==
    /\ ~crashed
    /\ req \in pending
    /\ pending' = pending \ {req}
    /\ error' = GraphQLError
    /\ UNCHANGED <<player, duels, issued, okIds, last>>
    /\ Render(duels, player)

\* lines 54-57: fetch, res.json() or json.data.allDuels threw
ResolveFailure(req) ==
    /\ ~crashed
    /\ req \in pending
    /\ pending' = pending \ {req}
    /\ error' = RequestFailed
    /\ UNCHANGED <<player, duels, issued, okIds, last>>
    /\ Render(duels, player)

Next ==
    \/ \E v \in Inputs : SetPlayer(v)
    \/ SearchDuels
    \/ \E req \in pending, recs \in Responses : ResolveOk(req, recs)
    \/ \E req \in pending : ResolveGraphQLError(req)
    \/ \E req \in pending : ResolveFailure(req)

Spec == Init /\ [][Next]_vars

----------------------------------------------------------------------------
(* The render function applied to one record and one viewpoint *)

Address == Str \cup {Null}

\* usernames of player1 and player2: both absent, both empty, both set
UsernameShapes == {<<Null, Null>>, <<<<>>, <<>>>>, <<<<"x">>, <<"y">>>>}

\* shotStepsP1, shotStepsP2, dodgeStepsP1, dodgeStepsP2: all set, all empty,
\* or one of them absent
StepShapes ==
    { <<Shot1, Shot2, Dodge1, Dodge2>>,
      <<<<>>, <<>>, <<>>, <<>>>>,
      <<Null, Shot2, Dodge1, Dodge2>>,
      <<Shot1, Null, Dodge1, Dodge2>>,
      <<Shot1, Shot2, Null, Dodge2>>,
      <<Shot1, Shot2, Dodge1, Null>> }

Duels ==
    { Duel("d", Player(a, u[1]), Player(b, u[2]), s[1], s[2], s[3], s[4], w) :
        a \in Address, b \in Address, w \in Address,
        u \in UsernameShapes, s \in StepShapes }

PInit ==
    /\ player \in Str
    /\ duels \in {<<d>> : d \in Duels}
    /\ error = Null
    /\ pending = {}
    /\ issued = 0
    /\ okIds = {}
    /\ last = [id |-> 0, player |-> <<>>, recs |-> <<>>]
    /\ chartData = ChartData(<<>>, <<>>)
    /\ table = <<>>
    /\ crashed = FALSE

Rendered == table # <<>> \/ crashed

\* HomePage's body runs over the record and the viewpoint
RenderPage ==
    /\ ~Rendered
    /\ UNCHANGED <<player, duels, error, pending, issued, okIds, last>>
    /\ Render(duels, player)

PNext == RenderPage

PSpec == PInit /\ [][PNext]_vars

----------------------------------------------------------------------------
(* Case-insensitive equality, stated letter by letter *)

SameLetter(c, d) == c = d \/ {c, d} = {"a", "A"} \/ {c, d} = {"b", "B"}

EqualsIgnoringCase(s, t) ==
    /\ Len(s) = Len(t)
    /\ \A i \in 1..Len(s) : SameLetter(s[i], t[i])

\* the positions of the records won by viewpoint p
WonBy(ds, p) ==
    {i \in 1..Len(ds) : ds[i].winner # Null /\ EqualsIgnoringCase(ds[i].winner, p)}

----------------------------------------------------------------------------
(* Claims about the page, checked under Spec *)

\* C1: in every reachable state of the page the chart's two counts are
\* non-negative and sum to the number of records in the result set.
C1_CountsPartitionRecords ==
    /\ chartData.wins >= 0
    /\ chartData.losses >= 0
    /\ chartData.wins + chartData.losses = Len(duels)

\* C1 witness: two records, one win and one loss, while an error message of
\* a later search is shown.
C1_Witness ==
    /\ Len(duels) = 2
    /\ chartData = [wins |-> 1, losses |-> 1]
    /\ error # Null
    /\ player # <<>>

\* C2: wins counts exactly the records whose winner is present and equals the
\* viewpoint ignoring case, with no participant check; every other record
\* (winner null, winner someone else, viewpoint no participant) is one loss;
\* the empty collection gives 0 and 0.
C2_WinsAreWinnerMatches ==
    /\ chartData.wins = Cardinality(WonBy(duels, player))
    /\ chartData.losses = Cardinality((1..Len(duels)) \ WonBy(duels, player))
    /\ duels = <<>> => chartData = [wins |-> 0, losses |-> 0]
    /\ \A i \in 1..Len(duels) : duels[i].winner = Null => i \notin WonBy(duels, player)

\* C2 witness: a record won by the viewpoint in another letter case next to a
\* record with a null winner, which is the one loss.
C2_Witness ==
    /\ Len(duels) = 2
    /\ player = <<"a">>
    /\ duels[1].winner = <<"A">>
    /\ duels[2].winner = Null
    /\ chartData = [wins |-> 1, losses |-> 1]

\* a search settled in this step without delivering records
SettledInError == pending' # pending /\ pending' \subseteq pending /\ okIds' = okIds

\* C8: a search that ends in a query error or a transport error sets the error
\* message and leaves the result set as it was; the result set changes only in
\* a step where a search succeeds, and then to that response's records.
C8_ErrorKeepsResults ==
    [][ /\ SettledInError =>
            /\ error' \in {GraphQLError, RequestFailed}
            /\ duels' = duels
        /\ duels' # duels =>
            /\ okIds' # okIds
            /\ duels' = last'.recs
            /\ error' = error ]_vars

\* C8 witness: the second search failed and the records of the first are
\* still the result set, beside the error message.
C8_Witness ==
    /\ error # Null
    /\ pending = {}
    /\ issued = 2
    /\ okIds = {1}
    /\ duels # <<>>
    /\ duels = last.recs

\* C9: every successful response overwrites the result set when it resolves,
\* whatever the order the searches were issued in: at every moment the result
\* set is that of the successful search that resolved last.
C9_LastResolvedWins ==
    okIds # {} => /\ last.id \in okIds
                  /\ duels = last.recs

\* C9 witness: both searches resolved, the later-issued one first, and the
\* result set and the empty error flag are those of the earlier-issued search.
C9_Witness ==
    /\ pending = {}
    /\ issued = 2
    /\ okIds = {1, 2}
    /\ last.id = 1
    /\ duels = last.recs
    /\ duels # <<>>
    /\ error = Null

\* the perspective a row shows for viewpoint p, stated from the record
RowIsFor(row, duel, p) ==
    LET mine == EqualsIgnoringCase(duel.player1.address, p)
    IN  /\ row.yourShots = join(IF mine THEN duel.shotStepsP1 ELSE duel.shotStepsP2)
        /\ row.oppShots = join(IF mine THEN duel.shotStepsP2 ELSE duel.shotStepsP1)
        /\ (row.winner = You) <=>
               (duel.winner \notin {Null, <<>>} /\ EqualsIgnoringCase(duel.winner, p))

\* C10: editing the input issues no fetch and leaves the result set and the
\* error flag alone; the summary and every row are recomputed from the new
\* text over the old result set.
C10_EditRecomputesOverOldResults ==
    [][ player' # player =>
            /\ duels' = duels
            /\ error' = error
            /\ pending' = pending
            /\ issued' = issued
            /\ chartData'.wins = Cardinality(WonBy(duels, player'))
            /\ chartData'.losses = Len(duels) - Cardinality(WonBy(duels, player'))
            /\ ~crashed' =>
                   /\ Len(table') = Len(duels)
                   /\ \A i \in 1..Len(duels) : RowIsFor(table'[i], duels[i], player') ]_vars

\* C10 witness: the result set was fetched for one address, the input now
\* holds another, and the chart and the rows are those of the new text.
C10_Witness ==
    /\ ~crashed
    /\ pending = {}
    /\ last.id # 0
    /\ duels # <<>>
    /\ ~EqualsIgnoringCase(player, last.player)
    /\ Cardinality(WonBy(duels, last.player)) = 1
    /\ chartData.wins = 0
    /\ table[1].winner = Opponent

----------------------------------------------------------------------------
(* Claims about one record and one viewpoint, checked under PSpec *)

\* the record and the computed projection of a PSpec state
TheDuel == duels[1]
TheProjection == Project(TheDuel, player)

\* line 113 ran to completion, so lines 114-121 computed the projection
Projected == Rendered /\ ~AddressThrows(TheDuel)

MatchesFirst == /\ TheDuel.player1.address # Null
                /\ EqualsIgnoringCase(TheDuel.player1.address, player)
MatchesSecond == /\ TheDuel.player2.address # Null
                 /\ EqualsIgnoringCase(TheDuel.player2.address, player)

\* the winner cell shows neither You nor Opponent
Undetermined(cell) == cell \notin {You, Opponent}

\* the outcome is computed, and shown when the row is rendered
OutcomeIs(Holds(_)) ==
    /\ Holds(TheProjection.winner)
    /\ ~crashed => Holds(table[1].winner)

IsYou(cell) == cell = You
IsOpponent(cell) == cell = Opponent

Label(pl) == IF pl.username \notin {Null, <<>>} THEN pl.username ELSE pl.address

\* the projection is the given perspective, and the rendered row shows it
PerspectiveIs(ys, yd, os, od, label) ==
    /\ TheProjection.yourShots = ys
    /\ TheProjection.yourDodges = yd
    /\ TheProjection.oppShots = os
    /\ TheProjection.oppDodges = od
    /\ TheProjection.opponent = label
    /\ ~crashed =>
        /\ table[1].yourShots = join(ys)
        /\ table[1].yourDodges = join(yd)
        /\ table[1].oppShots = join(os)
        /\ table[1].oppDodges = join(od)
        /\ table[1].opponent = label

FirstPerspective ==
    PerspectiveIs(TheDuel.shotStepsP1, TheDuel.dodgeStepsP1,
                  TheDuel.shotStepsP2, TheDuel.dodgeStepsP2, Label(TheDuel.player2))

SecondPerspective ==
    PerspectiveIs(TheDuel.shotStepsP2, TheDuel.dodgeStepsP2,
                  TheDuel.shotStepsP1, TheDuel.dodgeStepsP1, Label(TheDuel.player1))

\* C4 as stated: a viewpoint that matches neither address gets a row, and
\* it is the First-slot perspective.
C4_StrangerGetsFirstSlot ==
    (Projected /\ ~crashed /\ ~MatchesFirst /\ ~MatchesSecond) => FirstPerspective

\* C4 amended: a viewpoint that matches neither address still gets a
\* projection, and it is the Second-slot perspective: yours are participantB's
\* step sequences, the opponent's are participantA's, and the label is
\* participantA's displayName if it is non-empty, else participantA's address.
C4_StrangerGetsSecondSlot ==
    (Projected /\ ~MatchesFirst /\ ~MatchesSecond) => SecondPerspective

\* C4 witness: a stranger's row is rendered with participantB's steps as
\* yours and participantA's name as the opponent.
C4_Witness ==
    /\ Rendered /\ ~crashed
    /\ ~MatchesFirst /\ ~MatchesSecond
    /\ player # <<>>
    /\ TheDuel.player1.address # TheDuel.player2.address
    /\ table[1].yourShots = join(Shot2)
    /\ table[1].oppDodges = join(Dodge1)
    /\ table[1].opponent = <<"x">>

\* viewpoints that differ from the current one only in letter case give the
\* same projection and the same row
CaseBlind ==
    \A q \in Str : EqualsIgnoringCase(q, player) =>
        /\ Project(TheDuel, q) = TheProjection
        /\ Table(duels, q) = table

\* C5: a viewpoint equal, ignoring case, to participantA's address gets
\* participantA's step sequences as yours, participantB's as the opponent's
\* and participantB's displayName, else address, as the label; one equal to
\* participantB's address only gets the mirror image; viewpoints differing in
\* letter case only get the same result; First wins when both addresses match.
C5_SlotsByCaseInsensitiveMatch ==
    Projected =>
        /\ MatchesFirst => FirstPerspective
        /\ (MatchesSecond /\ ~MatchesFirst) => SecondPerspective
        /\ CaseBlind

\* C5 witness: both participants carry the viewpoint's address in another
\* letter case, and the row is the First perspective.
C5_Witness ==
    /\ Rendered /\ ~crashed
    /\ MatchesFirst /\ MatchesSecond
    /\ player # <<>>
    /\ TheDuel.player1.address # player
    /\ table[1].yourShots = join(Shot1)
    /\ table[1].oppShots = join(Shot2)
    /\ table[1].opponent = <<"y">>

\* C6: with the empty viewpoint no record resolves to a participant slot,
\* also when an address is the empty string or absent.
C6_EmptyViewpointMatchesNoSlot ==
    (Rendered /\ player = <<>>) =>
        /\ ~AddressThrows(TheDuel)
        /\ ~TheProjection.isPlayer1

\* C7: rendering a record never raises; an absent step sequence is shown as
\* the empty sequence and an absent address still gets a row.
C7_RenderNeverRaises ==
    Rendered => /\ ~crashed
                /\ Len(table) = Len(duels)

====
